---- MODULE Spec2Model ----
(***************************************************************************)
(* Model of the example client utilities (example_client/client_utils.py:  *)
(* print_statistics, prepare_certs) and of the multi-version serving       *)
(* contract exercised by tests/functional/test_model_versions_handling.py. *)
(*                                                                         *)
(* Numbers: a statistic is an exact rational n/d (samples are whole        *)
(* milliseconds), or one of the two IEEE specials numpy produces, nan and  *)
(* inf.  A displayed value is a whole number of hundredths.                *)
(***************************************************************************)
EXTENDS Integers, Sequences, FiniteSets

VARIABLES
    processing_times,   \* print_statistics: the sample sequence (argument)
    batch_size,         \* print_statistics: the batch size (argument)
    st_pc,              \* print_statistics: the statement about to run
    out,                \* standard output: the report lines written so far
    cert_args,          \* prepare_certs: the three arguments as passed
    fs,                 \* the filesystem: path -> file
    cert_pc,            \* prepare_certs: <<slot, step>> or a final position
    cert_vars,          \* prepare_certs: the locals server_cert, client_key, client_ca
    handles,            \* file objects currently open
    opened,             \* every open() call made so far, in order
    cert_result,        \* prepare_certs: what the call ended in
    srv,                \* serving endpoint: "down" or "serving"
    vstate,             \* serving endpoint: version -> lifecycle state
    response,           \* serving endpoint: the answer to the last request
    test_result         \* functional tests: the outcome of the last test run

vars == <<processing_times, batch_size, st_pc, out,
          cert_args, fs, cert_pc, cert_vars, handles, opened, cert_result,
          srv, vstate, response, test_result>>

st_vars == <<processing_times, batch_size, st_pc, out>>
cert_state == <<cert_args, fs, cert_pc, cert_vars, handles, opened, cert_result>>
srv_vars == <<srv, vstate, response, test_result>>

\* a Python value held by an argument or a local of prepare_certs: None, a
\* path (a str), or the bytes read from a file
None == [t |-> "none", p |-> 0, b |-> <<>>]
Path(p) == [t |-> "path", p |-> p, b |-> <<>>]
Bytes(b) == [t |-> "bytes", p |-> 0, b |-> b]

\* ------------------------------------------------------------------ bounds

MaxLen == 4        \* longest sample sequence
MaxFast == 2       \* fast samples are 0 .. MaxFast ms
SlowBase == 400    \* slow samples are SlowBase and SlowBase + 1 ms
MaxBatch == 2      \* batch sizes are 1 .. MaxBatch
MaxPaths == 3      \* paths of the filesystem are 1 .. MaxPaths
MaxVersion == 3    \* versions the endpoint may track are 1 .. MaxVersion

SampleVals == (0 .. MaxFast) \cup {SlowBase, SlowBase + 1}

RECURSIVE SeqsUpTo(_, _)
SeqsUpTo(S, n) ==
    IF n = 0 THEN {<<>>}
    ELSE LET shorter == SeqsUpTo(S, n - 1)
         IN  shorter \cup {Append(s, x) : s \in {t \in shorter : Len(t) = n - 1}, x \in S}

\* ------------------------------------------------------------ arithmetic

Num(n, d) == [k |-> "num", n |-> n, d |-> d]
NaN == [k |-> "nan", n |-> 0, d |-> 1]
Inf == [k |-> "inf", n |-> 0, d |-> 1]

Shown(h) == [k |-> "num", h |-> h]
ShownNaN == [k |-> "nan", h |-> 0]
ShownInf == [k |-> "inf", h |-> 0]

\* round-half-to-even of the non-negative rational n/d to a whole number
RoundHalfEven(n, d) ==
    LET q == n \div d
        r == n % d
    IN  IF 2 * r < d THEN q
        ELSE IF 2 * r > d THEN q + 1
        ELSE IF q % 2 = 0 THEN q ELSE q + 1

\* round(x, 2) of a numpy scalar followed by '{:.2f}': hundredths
Round2(x) ==
    IF x.k = "nan" THEN ShownNaN
    ELSE IF x.k = "inf" THEN ShownInf
    ELSE Shown(RoundHalfEven(100 * x.n, x.d))

\* c / x for a positive integer c and a numpy scalar x >= 0: division by
\* zero yields inf (with a RuntimeWarning), nan propagates
Divide(c, x) ==
    IF x.k = "nan" THEN NaN
    ELSE IF x.k = "inf" THEN Num(0, 1)
    ELSE IF x.n = 0 THEN Inf
    ELSE Num(c * x.d, x.n)

RECURSIVE Sum(_)
Sum(s) == IF s = <<>> THEN 0 ELSE Head(s) + Sum(Tail(s))

RECURSIVE SumSq(_)
SumSq(s) == IF s = <<>> THEN 0 ELSE Head(s) * Head(s) + SumSq(Tail(s))

RECURSIVE Insert(_, _)
Insert(x, s) ==
    IF s = <<>> THEN <<x>>
    ELSE IF x <= Head(s) THEN <<x>> \o s
    ELSE <<Head(s)>> \o Insert(x, Tail(s))

RECURSIVE Sorted(_)
Sorted(s) == IF s = <<>> THEN <<>> ELSE Insert(Head(s), Sorted(Tail(s)))

\* floor of the square root of x >= 0, by bisection on lo .. hi
RECURSIVE Bisect(_, _, _)
Bisect(x, lo, hi) ==
    IF lo = hi THEN lo
    ELSE LET mid == (lo + hi + 1) \div 2
         IN  IF mid * mid <= x THEN Bisect(x, mid, hi) ELSE Bisect(x, lo, mid - 1)

ISqrt(x) == Bisect(x, 0, 40000)

\* ------------------------------------------------- numpy's statistics

\* np.average: the mean; of an empty sequence nan (a RuntimeWarning, no error)
average(s) == IF s = <<>> THEN NaN ELSE Num(Sum(s), Len(s))

\* np.median: the middle element of the sorted samples, or the mean of the
\* two middle ones; of an empty sequence nan
median(s) ==
    LET a == Sorted(s)
        n == Len(s)
    IN  IF n = 0 THEN NaN
        ELSE IF n % 2 = 1 THEN Num(a[(n + 1) \div 2], 1)
        ELSE Num(a[n \div 2] + a[n \div 2 + 1], 2)

\* np.max and np.min raise ValueError on an empty sequence
ReductionRaises(s) == s = <<>>

\* a slip: the 'max time' line computed with the minimum
max_as_min(s) == LET a == Sorted(s) IN Num(a[1], 1)

max(s) == LET a == Sorted(s) IN Num(a[Len(a)], 1)

min(s) == LET a == Sorted(s) IN Num(a[1], 1)

\* a slip: the percentile taken at the lower neighbour, not interpolated
percentile_lower(s, q) ==
    LET a == Sorted(s)
        n == Len(s)
    IN  IF n = 0 THEN NaN ELSE Num(a[(q * (n - 1)) \div 100 + 1], 1)

\* np.percentile(s, q), method 'linear': the virtual index q/100 * (n - 1)
\* into the sorted samples, interpolated between its two neighbours
percentile(s, q) ==
    LET a == Sorted(s)
        n == Len(s)
        pos == q * (n - 1)
        lo == pos \div 100
        fr == pos % 100
        hi == IF lo + 1 < n THEN lo + 1 ELSE lo
    IN  IF n = 0 THEN NaN
        ELSE Num(100 * a[lo + 1] + fr * (a[hi + 1] - a[lo + 1]), 100)

\* np.var: the mean of the squared deviations from the mean
var(s) ==
    LET n == Len(s)
    IN  IF n = 0 THEN NaN ELSE Num(n * SumSq(s) - Sum(s) * Sum(s), n * n)

\* round(np.std(s), 2): the square root of the variance, in hundredths
std_shown(s) ==
    LET v == var(s)
        q == v.n \div v.d
        r == v.n % v.d
        F == 10000 * q + (10000 * r) \div v.d     \* floor(10^4 * variance)
        fn == (10000 * r) % v.d                   \* its fraction, over v.d
        h == ISqrt(F)
        up == \/ F > h * h + h
              \/ F = h * h + h /\ 4 * fn > v.d
              \/ F = h * h + h /\ 4 * fn = v.d /\ h % 2 = 1
    IN  IF s = <<>> THEN ShownNaN ELSE Shown(IF up THEN h + 1 ELSE h)

\* ------------------------------------------------------ print_statistics

Blank == [k |-> "none", h |-> 0]

\* a slip: the speed derived from the time as displayed
speed_of_rounded(B, t) ==
    Round2(Divide(1000 * B, IF t.k = "num" THEN Num(Round2(t).h, 100) ELSE t))

\* round(1000 * batch_size / t, 2): t is the statistic as computed, unrounded
speed_of(B, t) == Round2(Divide(1000 * B, t))

time_of(t) == Round2(t)

Line(label, t, B) == [label |-> label, time |-> time_of(t), speed |-> speed_of(B, t)]

TimeOnly(label, shown) == [label |-> label, time |-> shown, speed |-> Blank]

Emit(line, next) ==
    /\ out' = Append(out, line)
    /\ st_pc' = next
    /\ UNCHANGED <<processing_times, batch_size>>

Raise ==
    /\ st_pc' = "raised"
    /\ UNCHANGED <<processing_times, batch_size, out>>

print_header ==
    /\ st_pc = "L4"
    /\ Emit([label |-> "processing time for all iterations", time |-> Blank, speed |-> Blank], "L5")
    /\ UNCHANGED <<cert_state, srv_vars>>

print_average ==
    /\ st_pc = "L5"
    /\ Emit(Line("average", average(processing_times), batch_size), "L9")
    /\ UNCHANGED <<cert_state, srv_vars>>

print_median ==
    /\ st_pc = "L9"
    /\ Emit(Line("median", median(processing_times), batch_size), "L13")
    /\ UNCHANGED <<cert_state, srv_vars>>

print_max ==
    /\ st_pc = "L13"
    /\ IF ReductionRaises(processing_times)
       THEN Raise
       ELSE Emit(Line("max", max(processing_times), batch_size), "L15")
    /\ UNCHANGED <<cert_state, srv_vars>>

\* np.min raises on the same input as np.max, which has raised at line 13
print_min ==
    /\ st_pc = "L15"
    /\ ~ReductionRaises(processing_times)
    /\ Emit(Line("min", min(processing_times), batch_size), "L18")
    /\ UNCHANGED <<cert_state, srv_vars>>

print_percentile_90 ==
    /\ st_pc = "L18"
    /\ Emit(Line("percentile 90", percentile(processing_times, 90), batch_size), "L22")
    /\ UNCHANGED <<cert_state, srv_vars>>

print_percentile_50 ==
    /\ st_pc = "L22"
    /\ Emit(Line("percentile 50", percentile(processing_times, 50), batch_size), "L25")
    /\ UNCHANGED <<cert_state, srv_vars>>

print_std ==
    /\ st_pc = "L25"
    /\ Emit(TimeOnly("standard deviation", std_shown(processing_times)), "L26")
    /\ UNCHANGED <<cert_state, srv_vars>>

print_variance ==
    /\ st_pc = "L26"
    /\ Emit(TimeOnly("variance", Round2(var(processing_times))), "returned")
    /\ UNCHANGED <<cert_state, srv_vars>>

print_statistics ==
    \/ print_header
    \/ print_average
    \/ print_median
    \/ print_max
    \/ print_min
    \/ print_percentile_90
    \/ print_percentile_50
    \/ print_std
    \/ print_variance

\* --------------------------------------------------------- prepare_certs

Paths == 1 .. MaxPaths
Slots == 1 .. 3          \* server_cert, client_key, client_ca, in that order

\* a file: missing (open fails), ioerror (open succeeds, read fails), or ok
FileKinds == {"missing", "ioerror", "ok"}

\* the contents of file p: the first file is empty, the others hold bytes
\* that name them
Contents(p) == IF p = 1 THEN <<>> ELSE <<p, p>>

Files(p) == {[kind |-> k, data |-> Contents(p)] : k \in FileKinds}

\* the source line of slot i's open() and of its read()
OpenLine(i) == 27 + 3 * i
ReadLine(i) == 28 + 3 * i

\* a slip: the test of the argument left out
supplied_always(x) == TRUE

\* `if <argument> is not None`
supplied(x) == x # None

\* open(path, 'rb') succeeds on an existing file
can_open(x) == x.t = "path" /\ fs[x.p].kind # "missing"

\* a slip: a bounded read, f.read(1)
read_one_byte(x) == IF fs[x.p].data = <<>> THEN <<>> ELSE <<fs[x.p].data[1]>>

\* f.read(): the whole contents
read(x) == fs[x.p].data

NoResult == [kind |-> "none", exc |-> "", filename |-> None, lineno |-> 0, value |-> <<>>]

\* the exception open() raises: an OSError naming the file
open_error(i) ==
    [kind |-> "raising", exc |-> "FileNotFoundError",
     filename |-> cert_vars[i], lineno |-> OpenLine(i), value |-> <<>>]

\* the exception read() raises: an OSError that names no file
read_error(i) ==
    [kind |-> "raising", exc |-> "OSError", filename |-> None, lineno |-> ReadLine(i),
     value |-> <<>>]

\* the position after slot i
after(i) == IF i < 3 THEN <<i + 1, "test">> ELSE <<4, "return">>

\* lines 29, 32, 35: the test of slot i's argument
test_slot(i) ==
    /\ cert_pc = <<i, "test">>
    /\ cert_pc' = IF supplied(cert_vars[i]) THEN <<i, "open">> ELSE after(i)
    /\ UNCHANGED <<cert_args, fs, cert_vars, handles, opened, cert_result>>
    /\ UNCHANGED <<st_vars, srv_vars>>

\* a slip: a failed open() swallowed, the slot left absent
open_fails_silently(i) ==
    /\ cert_vars' = [cert_vars EXCEPT ![i] = None]
    /\ cert_pc' = after(i)
    /\ UNCHANGED <<handles, cert_result>>

\* open() raises: nothing was opened, the exception leaves the function at once
open_fails(i) ==
    /\ cert_pc' = <<0, "raised">>
    /\ cert_result' = [open_error(i) EXCEPT !.kind = "error"]
    /\ UNCHANGED <<handles, cert_vars>>

\* lines 30, 33, 36: with open(path, 'rb') as f
open_slot(i) ==
    /\ cert_pc = <<i, "open">>
    /\ opened' = Append(opened, [path |-> cert_vars[i], mode |-> "rb"])
    /\ IF can_open(cert_vars[i])
       THEN /\ handles' = handles \cup {[slot |-> i, path |-> cert_vars[i]]}
            /\ cert_pc' = <<i, "read">>
            /\ UNCHANGED <<cert_vars, cert_result>>
       ELSE open_fails(i)
    /\ UNCHANGED <<cert_args, fs>>
    /\ UNCHANGED <<st_vars, srv_vars>>

\* lines 31, 34, 37: the body of the with statement, <variable> = f.read()
read_slot(i) ==
    /\ cert_pc = <<i, "read">>
    /\ IF fs[cert_vars[i].p].kind = "ok"
       THEN /\ cert_vars' = [cert_vars EXCEPT ![i] = Bytes(read(cert_vars[i]))]
            /\ cert_result' = cert_result
       ELSE /\ cert_vars' = cert_vars
            /\ cert_result' = read_error(i)
    /\ cert_pc' = <<i, "exit">>
    /\ UNCHANGED <<cert_args, fs, handles, opened>>
    /\ UNCHANGED <<st_vars, srv_vars>>

\* a slip: the file closed by hand after the read, so not when read() raises
handles_after_exit_leaky(h, i) ==
    IF cert_result.kind = "raising" THEN h ELSE {f \in h : f.slot # i}

\* the file objects open once slot i's with statement is left
handles_after_exit(h, i) == {f \in h : f.slot # i}

\* leaving the with statement: __exit__ closes the file, then a pending
\* exception propagates out of the function
exit_slot(i) ==
    /\ cert_pc = <<i, "exit">>
    /\ handles' = handles_after_exit(handles, i)
    /\ IF cert_result.kind = "raising"
       THEN /\ cert_pc' = <<0, "raised">>
            /\ cert_result' = [cert_result EXCEPT !.kind = "error"]
       ELSE /\ cert_pc' = after(i)
            /\ cert_result' = cert_result
    /\ UNCHANGED <<cert_args, fs, cert_vars, opened>>
    /\ UNCHANGED <<st_vars, srv_vars>>

\* line 38: return server_cert, client_key, client_ca
return_certs ==
    /\ cert_pc = <<4, "return">>
    /\ cert_result' = [NoResult EXCEPT !.kind = "tuple",
                                        !.value = <<cert_vars[1], cert_vars[2], cert_vars[3]>>]
    /\ cert_pc' = <<0, "returned">>
    /\ UNCHANGED <<cert_args, fs, cert_vars, handles, opened>>
    /\ UNCHANGED <<st_vars, srv_vars>>

prepare_certs ==
    \/ \E i \in Slots : test_slot(i)
    \/ \E i \in Slots : open_slot(i)
    \/ \E i \in Slots : read_slot(i)
    \/ \E i \in Slots : exit_slot(i)
    \/ return_certs

\* ------------------------------------------- the serving endpoint's contract

Versions == 1 .. MaxVersion

\* an optional version: <<>> when the request names none, else <<v>>; the
\* requests also ask for one version that is never served
NoVersion == <<>>
RequestVersions == {NoVersion} \cup {<<v>> : v \in 1 .. MaxVersion + 1}

Transports == {"grpc", "rest"}

\* a version's lifecycle: untracked, LOADING, then AVAILABLE or LOAD_FAILED
Tracked(vs) == {v \in Versions : vs[v] # "untracked"}
Available(vs) == {v \in Versions : vs[v] = "AVAILABLE"}

\* the default version: the highest AVAILABLE one
default_version(vs) == CHOOSE v \in Available(vs) : \A w \in Available(vs) : w <= v

\* the versions an inference or metadata request operates on: none or one
resolve(vs, ver) ==
    IF ver = NoVersion
    THEN IF Available(vs) = {} THEN {} ELSE {default_version(vs)}
    ELSE {v \in Available(vs) : v = ver[1]}

\* one ModelVersionStatus entry
status_entry(vs, v) ==
    [version |-> v, state |-> vs[v],
     error_code |-> IF vs[v] = "LOAD_FAILED" THEN "UNKNOWN" ELSE "OK"]

\* the versions a status request reports: every tracked one when it names
\* none, else the named one if AVAILABLE
status_versions(vs, ver) ==
    IF ver = NoVersion THEN Tracked(vs) ELSE {v \in Available(vs) : v = ver[1]}

RECURSIVE Ascending(_)
Ascending(S) ==
    IF S = {} THEN <<>>
    ELSE LET m == CHOOSE v \in S : \A w \in S : v <= w
         IN  <<m>> \o Ascending(S \ {m})

Entries(vs, S) == LET a == Ascending(S) IN [i \in 1 .. Len(a) |-> status_entry(vs, a[i])]

NoResponse ==
    [kind |-> "none", transport |-> "", ver |-> NoVersion, at |-> <<>>,
     status |-> "", version |-> {}, entries |-> <<>>]

\* Predict and GetModelMetadata: the answer carries the version operated on,
\* which fixes the tensors' shapes
answer(kind, transport, vs, ver) ==
    [kind |-> kind, transport |-> transport, ver |-> ver, at |-> vs,
     status |-> IF resolve(vs, ver) = {} THEN "VERSION_NOT_FOUND" ELSE "OK",
     version |-> resolve(vs, ver), entries |-> <<>>]

\* GetModelStatus
status_answer(transport, vs, ver) ==
    [kind |-> "status", transport |-> transport, ver |-> ver, at |-> vs,
     status |-> IF status_versions(vs, ver) = {} THEN "VERSION_NOT_FOUND" ELSE "OK",
     version |-> {}, entries |-> Entries(vs, status_versions(vs, ver))]

start_loading(v) ==
    /\ srv = "serving"
    /\ vstate[v] = "untracked"
    /\ vstate' = [vstate EXCEPT ![v] = "LOADING"]
    /\ UNCHANGED <<srv, response, test_result>>
    /\ UNCHANGED <<st_vars, cert_state>>

load_succeeds(v) ==
    /\ srv = "serving"
    /\ vstate[v] = "LOADING"
    /\ vstate' = [vstate EXCEPT ![v] = "AVAILABLE"]
    /\ UNCHANGED <<srv, response, test_result>>
    /\ UNCHANGED <<st_vars, cert_state>>

load_fails(v) ==
    /\ srv = "serving"
    /\ vstate[v] = "LOADING"
    /\ vstate' = [vstate EXCEPT ![v] = "LOAD_FAILED"]
    /\ UNCHANGED <<srv, response, test_result>>
    /\ UNCHANGED <<st_vars, cert_state>>

infer(transport, ver) ==
    /\ srv = "serving"
    /\ response' = answer("infer", transport, vstate, ver)
    /\ UNCHANGED <<srv, vstate, test_result>>
    /\ UNCHANGED <<st_vars, cert_state>>

get_model_metadata(transport, ver) ==
    /\ srv = "serving"
    /\ response' = answer("metadata", transport, vstate, ver)
    /\ UNCHANGED <<srv, vstate, test_result>>
    /\ UNCHANGED <<st_vars, cert_state>>

get_model_status(transport, ver) ==
    /\ srv = "serving"
    /\ response' = status_answer(transport, vstate, ver)
    /\ UNCHANGED <<srv, vstate, test_result>>
    /\ UNCHANGED <<st_vars, cert_state>>

\* ------------------------------------------------ TestModelVersionHandling

\* @pytest.mark.parametrize("version", [1, 2, None])
TestVersions == {<<1>>, <<2>>, NoVersion}

\* start_server_multi_model: the endpoint serves versions 1 and 2 of the model
fixture_ready ==
    /\ srv = "serving"
    /\ Tracked(vstate) = {1, 2}
    /\ Available(vstate) = {1, 2}

\* a slip: the first version's model expected when no version is requested
model_info_first(version) == IF version = NoVersion THEN 1 ELSE version[1]

\* model_info = PVBFaceDetectionV2 if version is None else PVBFaceDetection[version - 1]
model_info(version) == IF version = NoVersion THEN 2 ELSE version[1]

\* the assertion on the output or metadata shapes: they are model_info's
shape_assertion(version, r) == r.status = "OK" /\ r.version = {model_info(version)}

\* a slip: one entry, the default version's, expected when no version is requested
status_assertion_default_only(version, r) ==
    /\ r.status = "OK"
    /\ Len(r.entries) >= 1
    /\ IF version = NoVersion
       THEN Len(r.entries) = 1
       ELSE r.entries[1].version = version[1]
    /\ r.entries[1].state = "AVAILABLE"
    /\ r.entries[1].error_code = "OK"

\* the assertions of test_get_model_status on the response
status_assertion(version, r) ==
    /\ r.status = "OK"
    /\ Len(r.entries) >= 1
    /\ IF version = NoVersion
       THEN Len(r.entries) = 2
       ELSE r.entries[1].version = version[1]
    /\ r.entries[1].state = "AVAILABLE"
    /\ r.entries[1].error_code = "OK"

NoTest == [test |-> "none", transport |-> "", version |-> NoVersion, passed |-> TRUE]

test_run_inference(transport, version) ==
    /\ fixture_ready
    /\ response' = answer("infer", transport, vstate, version)
    /\ test_result' = [test |-> "run_inference", transport |-> transport, version |-> version,
                       passed |-> shape_assertion(version, response')]
    /\ UNCHANGED <<srv, vstate>>
    /\ UNCHANGED <<st_vars, cert_state>>

test_get_model_metadata(transport, version) ==
    /\ fixture_ready
    /\ response' = answer("metadata", transport, vstate, version)
    /\ test_result' = [test |-> "get_model_metadata", transport |-> transport,
                       version |-> version, passed |-> shape_assertion(version, response')]
    /\ UNCHANGED <<srv, vstate>>
    /\ UNCHANGED <<st_vars, cert_state>>

test_get_model_status(transport, version) ==
    /\ fixture_ready
    /\ response' = status_answer(transport, vstate, version)
    /\ test_result' = [test |-> "get_model_status", transport |-> transport,
                       version |-> version, passed |-> status_assertion(version, response')]
    /\ UNCHANGED <<srv, vstate>>
    /\ UNCHANGED <<st_vars, cert_state>>

serving ==
    \/ \E v \in Versions : start_loading(v)
    \/ \E v \in Versions : load_succeeds(v)
    \/ \E v \in Versions : load_fails(v)
    \/ \E t \in Transports, ver \in RequestVersions : infer(t, ver)
    \/ \E t \in Transports, ver \in RequestVersions : get_model_metadata(t, ver)
    \/ \E t \in Transports, ver \in RequestVersions : get_model_status(t, ver)
    \/ \E t \in Transports, ver \in TestVersions : test_run_inference(t, ver)
    \/ \E t \in Transports, ver \in TestVersions : test_get_model_metadata(t, ver)
    \/ \E t \in Transports, ver \in TestVersions : test_get_model_status(t, ver)

\* ------------------------------------------------------- specifications

StatsIdle ==
    /\ processing_times = <<>>
    /\ batch_size = 1
    /\ st_pc = "idle"
    /\ out = <<>>

CertsIdle ==
    /\ cert_args = <<None, None, None>>
    /\ fs = [p \in Paths |-> [kind |-> "missing", data |-> Contents(p)]]
    /\ cert_pc = <<0, "idle">>
    /\ cert_vars = <<None, None, None>>
    /\ handles = {}
    /\ opened = <<>>
    /\ cert_result = NoResult

ServerDown ==
    /\ srv = "down"
    /\ vstate = [v \in Versions |-> "untracked"]
    /\ response = NoResponse
    /\ test_result = NoTest

\* a call print_statistics(processing_times, batch_size)
StatsCalled ==
    /\ processing_times \in SeqsUpTo(SampleVals, MaxLen)
    /\ batch_size \in 1 .. MaxBatch
    /\ st_pc = "L4"
    /\ out = <<>>

\* a call prepare_certs(server_cert, client_key, client_ca) on some filesystem
CertsCalled ==
    /\ cert_args \in [Slots -> {None} \cup {Path(p) : p \in Paths}]
    /\ fs \in {f \in [Paths -> UNION {Files(p) : p \in Paths}] : \A p \in Paths : f[p] \in Files(p)}
    /\ cert_pc = <<1, "test">>
    /\ cert_vars = cert_args
    /\ handles = {}
    /\ opened = <<>>
    /\ cert_result = NoResult

\* the endpoint started, no version of the model loaded yet
ServerStarted ==
    /\ srv = "serving"
    /\ vstate = [v \in Versions |-> "untracked"]
    /\ response = NoResponse
    /\ test_result = NoTest

InitStats == StatsCalled /\ CertsIdle /\ ServerDown
InitCerts == StatsIdle /\ CertsCalled /\ ServerDown
InitServer == StatsIdle /\ CertsIdle /\ ServerStarted

Init == InitStats \/ InitCerts \/ InitServer

Next == print_statistics \/ prepare_certs \/ serving

Spec == Init /\ [][Next]_vars
SpecStats == InitStats /\ [][print_statistics]_vars
SpecCerts == InitCerts /\ [][prepare_certs]_vars
SpecServer == InitServer /\ [][serving]_vars

\* ------------------------------------------- properties: print_statistics

\* the report lines that pair a time with a speed
SpeedLines == {i \in 1 .. Len(out) : out[i].speed.k # "none"}

LineOf(label) == CHOOSE i \in 1 .. Len(out) : out[i].label = label
Has(label) == \E i \in 1 .. Len(out) : out[i].label = label

\* a < b on displayed values: nan compares false, inf is above every number
ShownLt(a, b) ==
    /\ a.k = "num"
    /\ \/ b.k = "num" /\ a.h < b.h
       \/ b.k = "inf"

\* a <= b on displayed values
ShownLe(a, b) == a.k # "nan" /\ b.k # "nan" /\ ~ShownLt(b, a)

\* C2 (as claimed): the report is written whole or not at all: a call that
\* ends in an error has written nothing, no line shows nan, and a call on an
\* empty sample sequence never returns normally.
C2_WholeReportOrNothing ==
    /\ st_pc = "raised" => out = <<>>
    /\ \A i \in 1 .. Len(out) : out[i].time.k # "nan" /\ out[i].speed.k # "nan"
    /\ processing_times = <<>> => st_pc # "returned"

\* C8 (as claimed): of any two report lines, the one with the smaller time
\* shows the strictly greater speed.
C8_StrictlyDecreasing ==
    processing_times # <<>> =>
        \A i, j \in SpeedLines :
            ShownLt(out[i].time, out[j].time) => ShownLt(out[j].speed, out[i].speed)

\* C8 (amended): of any two report lines, the one with the smaller time shows
\* a speed that is greater or equal; the speed on the 'max time' line is no
\* greater, and the speed on the 'min time' line no smaller, than any speed
\* of the report.
C8_NonIncreasing ==
    processing_times # <<>> =>
        /\ \A i, j \in SpeedLines :
               ShownLt(out[i].time, out[j].time) => ShownLe(out[j].speed, out[i].speed)
        /\ Has("max") => \A i \in SpeedLines : ShownLe(out[LineOf("max")].speed, out[i].speed)
        /\ Has("min") => \A i \in SpeedLines : ShownLe(out[i].speed, out[LineOf("min")].speed)

\* a finished report in which a smaller time shows a strictly greater speed
\* and the extremes differ
C8_Witness ==
    /\ st_pc = "returned"
    /\ ShownLt(out[LineOf("min")].time, out[LineOf("max")].time)
    /\ ShownLt(out[LineOf("max")].speed, out[LineOf("min")].speed)
    /\ \E i, j \in SpeedLines :
           /\ ShownLt(out[i].time, out[j].time)
           /\ out[i].speed = out[j].speed

\* C9: the 'median' line and the 'time percentile 50' line of a report show
\* the same time and the same speed.
C9_MedianIsPercentile50 ==
    (processing_times # <<>> /\ Has("median") /\ Has("percentile 50")) =>
        /\ out[LineOf("median")].time = out[LineOf("percentile 50")].time
        /\ out[LineOf("median")].speed = out[LineOf("percentile 50")].speed

\* a finished report over an even number of samples whose two middle samples
\* differ, so that the 50th percentile is interpolated
C9_Witness ==
    /\ st_pc = "returned"
    /\ Len(processing_times) % 2 = 0
    /\ LET a == Sorted(processing_times)
           n == Len(a)
       IN  a[n \div 2] # a[n \div 2 + 1]
    /\ out[LineOf("median")].time.k = "num"

\* the statistic a report line displays, as computed (unrounded)
StatOf(label) ==
    CASE label = "average" -> average(processing_times)
      [] label = "median" -> median(processing_times)
      [] label = "max" -> max(processing_times)
      [] label = "min" -> min(processing_times)
      [] label = "percentile 90" -> percentile(processing_times, 90)
      [] label = "percentile 50" -> percentile(processing_times, 50)

Abs(x) == IF x < 0 THEN -x ELSE x

\* h hundredths is a nearest 2-digit value to the rational n/d
Nearest2(h, n, d) == 2 * Abs(h * d - 100 * n) <= d

\* C10: on every line, the displayed time is the statistic t rounded to 2
\* digits and the displayed speed is 1000 * batch_size / t rounded to 2
\* digits, t being the statistic itself and not its displayed value; five
\* samples 10 .. 50 ms with batch size 4 show 30.00 ms and 133.33 fps.
C10_SpeedFromUnroundedTime ==
    /\ processing_times # <<>> =>
           \A i \in SpeedLines :
               LET t == StatOf(out[i].label)
               IN  /\ out[i].time.k = "num"
                   /\ Nearest2(out[i].time.h, t.n, t.d)
                   /\ IF t.n = 0
                      THEN out[i].speed.k = "inf"
                      ELSE /\ out[i].speed.k = "num"
                           /\ Nearest2(out[i].speed.h, 1000 * batch_size * t.d, t.n)
    /\ Line("average", average(<<10, 20, 30, 40, 50>>), 4)
           = [label |-> "average", time |-> Shown(3000), speed |-> Shown(13333)]

\* a report line whose speed differs from the one its displayed time gives
C10_Witness ==
    \E i \in SpeedLines :
        /\ out[i].time.k = "num"
        /\ out[i].time.h > 0
        /\ out[i].speed.k = "num"
        /\ ~Nearest2(out[i].speed.h, 1000 * batch_size * 100, out[i].time.h)

\* ---------------------------------------------- properties: prepare_certs

Terminal == cert_pc[2] \in {"returned", "raised"}

\* the slots whose argument names a file that cannot be opened or read
BadSlots == {i \in Slots : cert_args[i] # None /\ fs[cert_args[i].p].kind # "ok"}
FirstBad == CHOOSE i \in BadSlots : \A j \in BadSlots : i <= j

\* the slot whose with statement holds source line l
SlotOfLine(l) == (l - 27) \div 3

\* C1: when a supplied path cannot be opened or read, the call never returns
\* a tuple: it ends in the error raised for the first such slot, whose place
\* (and, for a failed open, whose file name) identifies that slot.
C1_FailureEndsInSlotError ==
    BadSlots # {} =>
        /\ cert_result.kind # "tuple"
        /\ cert_pc[2] # "returned"
        /\ Terminal \/ ENABLED prepare_certs
        /\ Terminal => cert_result.kind = "error"
        /\ cert_result.kind = "error" =>
               /\ SlotOfLine(cert_result.lineno) = FirstBad
               /\ cert_vars[FirstBad] = cert_args[FirstBad]
               /\ cert_result.exc = "FileNotFoundError" =>
                      cert_result.filename = cert_args[FirstBad]

\* a call that read its first slot and ended in the error of a later slot
\* whose file is missing
C1_Witness ==
    /\ cert_pc = <<0, "raised">>
    /\ cert_result.kind = "error"
    /\ cert_result.exc = "FileNotFoundError"
    /\ SlotOfLine(cert_result.lineno) > 1
    /\ cert_vars[1].t = "bytes"

\* C3: when every supplied path names a readable file, the call returns the
\* triple in slot order: None where no path was supplied, else all the bytes
\* of the file that slot's path names.
C3_ReturnsEachSlotsFile ==
    BadSlots = {} =>
        /\ cert_result.kind \in {"none", "tuple"}
        /\ Terminal \/ ENABLED prepare_certs
        /\ Terminal =>
               /\ cert_result.kind = "tuple"
               /\ Len(cert_result.value) = 3
               /\ \A i \in Slots :
                      /\ cert_result.value[i] = None <=> cert_args[i] = None
                      /\ cert_args[i] # None =>
                             /\ cert_result.value[i].t = "bytes"
                             /\ cert_result.value[i].b = fs[cert_args[i].p].data

\* a call that returned three different files, the empty one among them
C3_Witness ==
    /\ cert_pc = <<0, "returned">>
    /\ \A i \in Slots : cert_args[i] # None
    /\ \A i, j \in Slots : i # j => cert_args[i] # cert_args[j]
    /\ \E i \in Slots : cert_result.value[i] = Bytes(<<>>)
    /\ \E i \in Slots : Len(cert_result.value[i].b) > 1

\* C4: no file is open when the call has ended, by return or by error, nor
\* when a slot is about to be processed; at most the current slot's file is
\* ever open.
C4_HandlesReleased ==
    /\ Terminal => handles = {}
    /\ cert_pc[2] \in {"test", "open", "return"} => handles = {}
    /\ \A f \in handles : f.slot = cert_pc[1]

\* a call that ended in the error of a read, after an earlier slot was read
C4_Witness ==
    /\ cert_pc = <<0, "raised">>
    /\ cert_result.exc = "OSError"
    /\ Len(opened) >= 2
    /\ handles = {}

\* the paths open() was called with, and the non-absent arguments
Accessed == {opened[k].path : k \in 1 .. Len(opened)}
NonAbsent == {cert_args[i] : i \in Slots} \ {None}

\* C5 (as claimed): the files accessed during a call are exactly the
\* non-absent arguments, each opened for reading only; a call with no path
\* returns three None without any access.
C5_AccessedEqualsSupplied ==
    /\ Terminal => Accessed = NonAbsent
    /\ \A k \in 1 .. Len(opened) : opened[k].mode = "rb"
    /\ NonAbsent = {} =>
           /\ opened = <<>>
           /\ Terminal => cert_result.kind = "tuple" /\ cert_result.value = <<None, None, None>>

\* C5 (amended): the files accessed are among the non-absent arguments, and
\* are exactly those when the call returns; a call that ends in an error has
\* accessed the non-absent arguments up to the failing slot only.  Each is
\* opened for reading only; a call with no path returns three None without
\* any access.
C5_AccessedAmongSupplied ==
    /\ Accessed \subseteq NonAbsent
    /\ cert_pc[2] = "returned" => Accessed = NonAbsent
    /\ cert_pc[2] = "raised" =>
           Accessed = {cert_args[i] : i \in 1 .. SlotOfLine(cert_result.lineno)} \ {None}
    /\ \A k \in 1 .. Len(opened) : opened[k].mode = "rb"
    /\ NonAbsent = {} =>
           /\ opened = <<>>
           /\ Terminal => cert_result.kind = "tuple" /\ cert_result.value = <<None, None, None>>

\* a call that returned with one slot absent and two files accessed
C5_Witness ==
    /\ cert_pc = <<0, "returned">>
    /\ \E i \in Slots : cert_args[i] = None
    /\ Cardinality(Accessed) = 2
    /\ Accessed = NonAbsent

\* ----------------------------------------- properties: version resolution

\* the versions AVAILABLE, and those tracked, when the response was made
AvailableThen == {v \in DOMAIN response.at : response.at[v] = "AVAILABLE"}
TrackedThen == {v \in DOMAIN response.at : response.at[v] # "untracked"}

EntryVersions == {response.entries[k].version : k \in 1 .. Len(response.entries)}

\* C6: an inference or metadata request that names no version operates on
\* the highest AVAILABLE version; one that names an AVAILABLE version
\* operates on that version; one that names a version not AVAILABLE fails
\* with VERSION_NOT_FOUND and operates on none.  The inference and metadata
\* tests, run against versions 1 and 2, pass.
C6_VersionResolution ==
    /\ response.kind \in {"infer", "metadata"} =>
           /\ (response.ver = NoVersion /\ AvailableThen # {}) =>
                  /\ response.status = "OK"
                  /\ \E v \in AvailableThen :
                         /\ response.version = {v}
                         /\ \A w \in AvailableThen : w <= v
           /\ (response.ver # NoVersion /\ response.ver[1] \in AvailableThen) =>
                  /\ response.status = "OK"
                  /\ response.version = {response.ver[1]}
           /\ (response.ver # NoVersion /\ response.ver[1] \notin AvailableThen) =>
                  /\ response.status = "VERSION_NOT_FOUND"
                  /\ response.version = {}
           /\ response.version \subseteq AvailableThen
    /\ test_result.test \in {"run_inference", "get_model_metadata"} => test_result.passed

\* a request without version answered by version 2 of three tracked
\* versions, the highest of which is not AVAILABLE
C6_Witness ==
    /\ response.kind = "infer"
    /\ response.ver = NoVersion
    /\ AvailableThen = {1, 2}
    /\ TrackedThen = {1, 2, 3}
    /\ response.version = {2}

\* C7: a status request that names no version returns one entry for every
\* tracked version; one that names an AVAILABLE version returns the entry of
\* that version alone; every entry carries its version's state, and error
\* code OK when that state is AVAILABLE.  The status tests, run against
\* versions 1 and 2, pass.
C7_StatusOfAllVersions ==
    /\ response.kind = "status" =>
           /\ response.ver = NoVersion =>
                  /\ EntryVersions = TrackedThen
                  /\ Len(response.entries) = Cardinality(TrackedThen)
           /\ response.ver # NoVersion =>
                  /\ EntryVersions \subseteq {response.ver[1]}
                  /\ response.ver[1] \in AvailableThen => Len(response.entries) = 1
           /\ \A k \in 1 .. Len(response.entries) :
                  LET e == response.entries[k]
                  IN  /\ e.state = response.at[e.version]
                      /\ e.state = "AVAILABLE" => e.error_code = "OK"
    /\ test_result.test = "get_model_status" => test_result.passed

\* the status test without version has run: two entries, both AVAILABLE
C7_Witness ==
    /\ test_result.test = "get_model_status"
    /\ test_result.version = NoVersion
    /\ test_result.passed
    /\ response.kind = "status"
    /\ Len(response.entries) = 2
    /\ \A k \in 1 .. 2 : response.entries[k].state = "AVAILABLE"

====
